---- MODULE Spec2Model ----
(***************************************************************************)
(* A model of NoProb.py: the parameter-file reader, the down-sampling of   *)
(* the dt-candidate window, the outer search over (dt, cvert) candidates,  *)
(* the asymptote finder and the final report, plus an exact symbolic model *)
(* of the saturation function and of its analytic gradient.                *)
(*                                                                         *)
(* Floating-point values that only flow through the program (losses, file  *)
(* values) are modelled by tagged tuples <<kind, n>> so that NaN and       *)
(* infinity compare as IEEE-754 values do.                                 *)
(***************************************************************************)
EXTENDS Integers, Sequences, FiniteSets, TLC

VARIABLES
    pc,               \* position of the script
    line,             \* read_parameters_from_file: the line being processed
    aux_params,       \* the dict d / aux_params (key -> value)
    parameter_guess,  \* the 4 tunable start values (parameters)
    user_in,          \* answer to the confirmation prompt
    span_length,      \* len(span_dt)
    i,                \* loop variable of the down-sampling loop
    guess_dt,         \* candidate dt list
    guess_cvert,      \* candidate cvert list
    fit_loss,         \* the loss the optimizer reaches per candidate (data-determined input)
    index,            \* loop variable of the outer search
    loss,             \* best loss so far
    best_guess_index, \* index of the retained candidate
    new_params,       \* retained parameter vector
    loss_array,       \* the (dt, loss) trace with its header row
    trace_written,    \* dtVsLoss.csv has been written
    curve,            \* the fitted curve seen by getAsymtote_Y (input)
    asymptote_Y,      \* result of getAsymtote_Y
    output_written,   \* fitted_NoProb_parameters.csv has been written
    shown,            \* show_data has been called
    X,                \* get_saturation_gradient: the time of one data point
    grad              \* get_saturation_gradient: the 4 rows returned for t

vars == <<pc, line, aux_params, parameter_guess, user_in, span_length, i,
          guess_dt, guess_cvert, fit_loss, index, loss, best_guess_index,
          new_params, loss_array, trace_written, curve, asymptote_Y,
          output_written, shown, X, grad>>

\* the variables of the gradient evaluation
gvars == <<X, grad>>

-----------------------------------------------------------------------------
(* Bounds of the model *)

\* largest dt-candidate window of the whole-run specification
MaxSpan == 201
\* largest dt-candidate window of the down-sampling specification
MaxSpanWide == 405
\* number of leading candidates whose loss is chosen freely; all later
\* candidates share one freely chosen loss
FreeFits == 2

-----------------------------------------------------------------------------
(* Program constants *)

TUNED_PARAMS == <<"k1", "n0", "n1", "n2">>

USER_DEFINED_PARAMS ==
    {"dt_min", "dt_max", "c3", "r", "graph_left_cutoff", "graph_right_cutoff",
     "optimization_left_cutoff", "optimization_right_cutoff"}

max_itterations == 200

-----------------------------------------------------------------------------
(* Floats that flow through the search: <<"fin", n>>, <<"inf", 0>>, <<"nan", 0>> *)

Fin(n) == <<"fin", n>>
PosInf == <<"inf", 0>>
NaN == <<"nan", 0>>

\* a < b on floats: false whenever either side is NaN
FloatLt(a, b) ==
    /\ a[1] # "nan"
    /\ b[1] # "nan"
    /\ \/ a[1] = "fin" /\ b[1] = "inf"
       \/ a[1] = "fin" /\ b[1] = "fin" /\ a[2] < b[2]

\* a == b on floats: NaN equals nothing, itself included
FloatEq(a, b) == a[1] # "nan" /\ b[1] # "nan" /\ a = b

IsFinite(a) == a[1] = "fin"

\* the losses a fit can report
LossValues == {Fin(0), Fin(1), Fin(2), PosInf, NaN}

-----------------------------------------------------------------------------
(* The parameter file *)

\* row[0] of the lines a parameter file is drawn from; "#" is a comment line
\* and "" a blank line
RawKeys == USER_DEFINED_PARAMS \cup {"k1", "C3", "#", "", "dt", "bogus"}

FileLines == {<<k, 1>> : k \in RawKeys}

NoLine == <<"<none>", 0>>

\* row[0].lower().strip()
Lower(k) == IF k = "C3" THEN "c3" ELSE k

TunedNames == {TUNED_PARAMS[k] : k \in DOMAIN TUNED_PARAMS}

\* TUNED_PARAMS.index(name), 1-based
TunedIndex(name) == CHOOSE k \in DOMAIN TUNED_PARAMS : TUNED_PARAMS[k] = name

IsSkipped(l) == l[1] = "#" \/ l[1] = ""

\* d with d[k] = v
DictSet(dict, k, v) ==
    [x \in DOMAIN dict \cup {k} |-> IF x = k THEN v ELSE dict[x]]

\* the body of the for loop over the lines of the file, for one line
ReadLine ==
    /\ pc = "read"
    /\ \E l \in FileLines :
        /\ line' = l
        /\ IF IsSkipped(l)
           THEN UNCHANGED <<pc, aux_params, parameter_guess>>
           ELSE IF Lower(l[1]) \in TunedNames
           THEN /\ parameter_guess' =
                       [parameter_guess EXCEPT ![TunedIndex(Lower(l[1]))] = l[2]]
                /\ UNCHANGED <<pc, aux_params>>
           ELSE IF Lower(l[1]) \in USER_DEFINED_PARAMS
           THEN /\ aux_params' = DictSet(aux_params, Lower(l[1]), l[2])
                /\ UNCHANGED <<pc, parameter_guess>>
           ELSE /\ pc' = "config_error"
                /\ UNCHANGED <<aux_params, parameter_guess>>
    /\ UNCHANGED <<gvars, user_in, span_length, i, guess_dt, guess_cvert, fit_loss,
                   index, loss, best_guess_index, new_params, loss_array,
                   trace_written, curve, asymptote_Y, output_written, shown>>

\* an end of file without the missing-keys check
EndOfFileUnchecked ==
    /\ pc = "read"
    /\ line' = NoLine
    /\ pc' = "confirm"
    /\ UNCHANGED <<gvars, aux_params, parameter_guess, user_in, span_length, i,
                   guess_dt, guess_cvert, fit_loss, index, loss,
                   best_guess_index, new_params, loss_array, trace_written,
                   curve, asymptote_Y, output_written, shown>>

\* end of the file: the missing-keys check
EndOfFile ==
    /\ pc = "read"
    /\ line' = NoLine
    /\ pc' = IF USER_DEFINED_PARAMS \ DOMAIN aux_params # {}
             THEN "config_error"
             ELSE "confirm"
    /\ UNCHANGED <<gvars, aux_params, parameter_guess, user_in, span_length, i,
                   guess_dt, guess_cvert, fit_loss, index, loss,
                   best_guess_index, new_params, loss_array, trace_written,
                   curve, asymptote_Y, output_written, shown>>

\* the confirmation prompt: asks again until the answer is y or n
Confirm ==
    /\ pc = "confirm"
    /\ \E answer \in {"y", "n", "maybe"} :
        /\ user_in' = answer
        /\ pc' = IF answer = "y" THEN "trim"
                 ELSE IF answer = "n" THEN "declined"
                 ELSE "confirm"
    /\ UNCHANGED <<gvars, line, aux_params, parameter_guess, span_length, i, guess_dt,
                   guess_cvert, fit_loss, index, loss, best_guess_index,
                   new_params, loss_array, trace_written, curve, asymptote_Y,
                   output_written, shown>>

-----------------------------------------------------------------------------
(* The dt-candidate window and its down-sampling *)

\* span_dt[j] and span_cvert[j], j 0-based: the window holds unit-spaced
\* samples starting at time 1; the value of the sample at time t is -t
span_dt(j) == j + 1
span_cvert(j) == 0 - (j + 1)

\* trim_data for the dt window (its length n is decided by the data and by
\* dt_min, dt_max), then the initialisation of the candidate lists
TrimData(maxn) ==
    /\ pc = "trim"
    /\ \E n \in 0..maxn :
        /\ span_length' = n
        /\ pc' = IF n > max_itterations THEN "downsample" ELSE "search_init"
    /\ guess_dt' = <<>>
    /\ guess_cvert' = <<>>
    /\ UNCHANGED <<gvars, line, aux_params, parameter_guess, user_in, i, fit_loss,
                   index, loss, best_guess_index, new_params, loss_array,
                   trace_written, curve, asymptote_Y, output_written, shown>>

max_index == span_length - 1

\* a stride computed from the length instead of the largest index
index_interval_from_length == span_length \div max_itterations

\* int(max_index/max_itterations)
index_interval == max_index \div max_itterations

\* one iteration of the down-sampling loop
DownSample ==
    /\ pc = "downsample"
    /\ Len(guess_dt) < max_itterations
    /\ i' = Len(guess_dt)
    /\ LET span_index == i' * index_interval
       IN  /\ guess_dt' = Append(guess_dt, span_dt(span_index))
           /\ guess_cvert' = Append(guess_cvert, span_cvert(span_index))
    /\ pc' = IF Len(guess_dt) + 1 = max_itterations THEN "search_init"
             ELSE "downsample"
    /\ UNCHANGED <<gvars, line, aux_params, parameter_guess, user_in, span_length,
                   fit_loss, index, loss, best_guess_index, new_params,
                   loss_array, trace_written, curve, asymptote_Y,
                   output_written, shown>>

-----------------------------------------------------------------------------
(* The optimizer, seen from the outer search *)

\* new_params before the first assignment
NoParams == <<"undefined">>

\* The optimization data decide the loss the fit reaches for each candidate.
\* Candidates with dt <= FreeFits have a loss of their own, all later ones
\* share one; fit_loss records the losses decided so far.
LossKey(dt) == IF dt <= FreeFits THEN dt ELSE FreeFits + 1

\* the landscapes that agree with fit_loss and decide the loss at dt
Landscapes(dt) ==
    IF LossKey(dt) \in DOMAIN fit_loss
    THEN {fit_loss}
    ELSE {DictSet(fit_loss, LossKey(dt), v) : v \in LossValues}

\* scipy_optimize(X, Y, aux_parameters, parameters), XY the landscape of the
\* data: the optimized parameters are a function of the auxiliary dt and
\* cvert and of the start vector; no argument is modified
scipy_optimize(XY, aux_parameters, parameters) ==
    [params |-> <<"opt", aux_parameters["dt"], aux_parameters["cvert"], parameters>>,
     loss |-> XY[LossKey(aux_parameters["dt"])]]

-----------------------------------------------------------------------------
(* The outer search *)

\* loss = 0, best_guess_index = 0, loss_array = [['dt', 'loss']]
SearchInit ==
    /\ pc = "search_init"
    /\ loss' = Fin(0)
    /\ best_guess_index' = 0
    /\ loss_array' = << <<"dt", "loss">> >>
    /\ pc' = "search"
    /\ UNCHANGED <<gvars, line, aux_params, parameter_guess, user_in, span_length, i,
                   guess_dt, guess_cvert, fit_loss, index, new_params,
                   trace_written, curve, asymptote_Y, output_written, shown>>

\* if loss == 0 or guess_loss < loss
Improves(guess_loss, best_loss) ==
    FloatEq(best_loss, Fin(0)) \/ FloatLt(guess_loss, best_loss)

\* aux_params['dt'] = dt; aux_params['cvert'] = cvert
SetCandidate(aux, dt, cvert) == DictSet(DictSet(aux, "dt", dt), "cvert", cvert)

\* one iteration of the loop over the candidates
SearchStep ==
    /\ pc = "search"
    /\ Len(loss_array) - 1 < Len(guess_dt)
    /\ index' = Len(loss_array) - 1
    /\ aux_params' = SetCandidate(aux_params, guess_dt[index' + 1],
                                  guess_cvert[index' + 1])
    /\ \E XY \in Landscapes(guess_dt[index' + 1]) :
        /\ fit_loss' = XY
        /\ LET fit == scipy_optimize(XY, aux_params', parameter_guess)
           IN  /\ loss_array' =
                      Append(loss_array, <<guess_dt[index' + 1], fit.loss>>)
               /\ IF Improves(fit.loss, loss)
                  THEN /\ new_params' = fit.params
                       /\ loss' = fit.loss
                       /\ best_guess_index' = index'
                  ELSE UNCHANGED <<new_params, loss, best_guess_index>>
    /\ UNCHANGED <<gvars, pc, line, parameter_guess, user_in, span_length, i, guess_dt,
                   guess_cvert, trace_written, curve, asymptote_Y,
                   output_written, shown>>

\* a loop exit that leaves dt and cvert at the last candidate iterated
SearchExitKeepsLast ==
    /\ pc = "search"
    /\ Len(loss_array) - 1 = Len(guess_dt)
    /\ trace_written' = TRUE
    /\ pc' = IF best_guess_index + 1 \in DOMAIN guess_dt THEN "asym"
             ELSE "index_error"
    /\ UNCHANGED <<gvars, line, aux_params, parameter_guess, user_in, span_length, i,
                   guess_dt, guess_cvert, fit_loss, index, loss,
                   best_guess_index, new_params, loss_array, curve, asymptote_Y,
                   output_written, shown>>

\* after the loop: write dtVsLoss.csv, then select the retained candidate;
\* guess_dt[best_guess_index] raises IndexError on an empty candidate list
SearchExit ==
    /\ pc = "search"
    /\ Len(loss_array) - 1 = Len(guess_dt)
    /\ trace_written' = TRUE
    /\ IF best_guess_index + 1 \in DOMAIN guess_dt
       THEN /\ aux_params' = SetCandidate(aux_params,
                                          guess_dt[best_guess_index + 1],
                                          guess_cvert[best_guess_index + 1])
            /\ pc' = "asym"
       ELSE /\ pc' = "index_error"
            /\ UNCHANGED aux_params
    /\ UNCHANGED <<gvars, line, parameter_guess, user_in, span_length, i, guess_dt,
                   guess_cvert, fit_loss, index, loss, best_guess_index,
                   new_params, loss_array, curve, asymptote_Y, output_written,
                   shown>>

-----------------------------------------------------------------------------
(* The asymptote finder *)

\* The curve t |-> saturation_function(t, new_params, aux_params) of a fit,
\* on integer times and with integer values: two quadratic bends that end at
\* times T and T2, then a straight line of slope B
Pos(x) == IF x > 0 THEN x ELSE 0
Abs(x) == IF x < 0 THEN 0 - x ELSE x

CurveSet(As, Ts, As2, Ts2, Bs, Cs) ==
    [A : As, T : Ts, A2 : As2, T2 : Ts2, B : Bs, C : Cs]

\* the curves of the whole-run specification
Curves == CurveSet({0, 1}, {3}, {0}, {0}, {-1, 0, 1}, {0})

\* the curves of the asymptote specification; with A = 99 or 100 and A2 = 1
\* the threshold 0.01*ref is met exactly or passed by a non-zero difference
CurvesWide == CurveSet({0, 1, 99, 100}, 0..5, {0, 1}, {6, 8}, {-1, 0, 1}, {0, 5})

\* the transition times of the asymptote specification
DtRange == (0 - 1)..4

\* saturation_function(time, parameters, aux_parameters) for fitted parameters
saturation_curve(time, parameters, aux_parameters) ==
    LET c == parameters.curve
    IN  c.A * Pos(c.T - time) * Pos(c.T - time)
          + c.A2 * Pos(c.T2 - time) * Pos(c.T2 - time)
          + c.B * time + c.C

\* an acceptance test that is not strict
asym_accepts_or_equal(ddB_dt, ddB_asym_guess) ==
    ddB_dt >= 100 * Abs(ddB_asym_guess)

\* if ddB_dt*0.01 > abs(ddB_asym_guess), in exact arithmetic
asym_accepts(ddB_dt, ddB_asym_guess) == ddB_dt > 100 * Abs(ddB_asym_guess)

\* falling out of the loop without sys.exit(1)
NotFoundReturns == [found |-> TRUE, value |-> 0]

\* "Could not find asymtote for Rt", sys.exit(1)
NotFound == [found |-> FALSE, value |-> 0]

\* the value returned at an accepted i
asym_value(n, dB_asym_guess_2, parameters, aux_parameters) ==
    LET dt == aux_parameters["dt"]
    IN  IF dB_asym_guess_2 < 0
        THEN saturation_curve(dt * n, parameters, aux_parameters)
        ELSE saturation_curve(dt * n, parameters, aux_parameters)
               - dt * n * dB_asym_guess_2

\* one iteration of the loop: the return at an accepted i, or no return
asym_try(n, ddB_dt, parameters, aux_parameters) ==
    LET dt == aux_parameters["dt"]
        dB_asym_guess_1 ==
            saturation_curve(dt * n, parameters, aux_parameters)
              - saturation_curve(dt * n - 1, parameters, aux_parameters)
        dB_asym_guess_2 ==
            saturation_curve(dt * n + 1, parameters, aux_parameters)
              - saturation_curve(dt * n, parameters, aux_parameters)
        ddB_asym_guess == dB_asym_guess_1 - dB_asym_guess_2
    IN  IF asym_accepts(ddB_dt, ddB_asym_guess)
        THEN [found |-> TRUE,
              value |-> asym_value(n, dB_asym_guess_2, parameters,
                                   aux_parameters)]
        ELSE [found |-> FALSE, value |-> 0]

\* the iterations lo..hi in increasing order, stopping at the first return;
\* the range is split in two (first half, then second half) so that the
\* evaluation stays shallow
RECURSIVE asym_range(_, _, _, _, _)
asym_range(lo, hi, ddB_dt, parameters, aux_parameters) ==
    IF lo = hi
    THEN asym_try(lo, ddB_dt, parameters, aux_parameters)
    ELSE LET mid == (lo + hi) \div 2
             first == asym_range(lo, mid, ddB_dt, parameters, aux_parameters)
         IN  IF first.found
             THEN first
             ELSE asym_range(mid + 1, hi, ddB_dt, parameters, aux_parameters)

\* for i in range(1, 100): ... ; then "Could not find asymtote", sys.exit(1)
asym_loop(ddB_dt, parameters, aux_parameters) ==
    LET res == asym_range(1, 100 - 1, ddB_dt, parameters, aux_parameters)
    IN  IF res.found THEN res ELSE NotFound

\* getAsymtote_Y: found = FALSE stands for sys.exit(1)
getAsymtote_Y(parameters, aux_parameters) ==
    LET dt == aux_parameters["dt"]
        ddB_dt ==
            Abs((saturation_curve(dt, parameters, aux_parameters)
                   - saturation_curve(dt - 1, parameters, aux_parameters))
                - (saturation_curve(dt + 1, parameters, aux_parameters)
                   - saturation_curve(dt, parameters, aux_parameters)))
    IN  asym_loop(ddB_dt, parameters, aux_parameters)

\* the fitted parameters together with the curve they define
Fitted(c) == [fit |-> new_params, curve |-> c]

\* asymptote_Y = getAsymtote_Y(new_params, aux_params)
Asymptote(cs) ==
    /\ pc = "asym"
    /\ \E c \in cs :
        /\ curve' = c
        /\ LET res == getAsymtote_Y(Fitted(c), aux_params)
           IN  IF res.found
               THEN /\ asymptote_Y' = <<res.value>>
                    /\ pc' = "report"
               ELSE /\ pc' = "asym_error"
                    /\ UNCHANGED asymptote_Y
    /\ UNCHANGED <<gvars, line, aux_params, parameter_guess, user_in, span_length, i,
                   guess_dt, guess_cvert, fit_loss, index, loss,
                   best_guess_index, new_params, loss_array, trace_written,
                   output_written, shown>>

\* bt, the parameter output file and the plot
Report ==
    /\ pc = "report"
    /\ aux_params' =
           DictSet(aux_params, "bt",
                   asymptote_Y[1]
                     - saturation_curve(aux_params["optimization_left_cutoff"],
                                        Fitted(curve), aux_params))
    /\ output_written' = (new_params # NoParams)
    /\ shown' = (new_params # NoParams)
    /\ pc' = "done"
    /\ UNCHANGED <<gvars, line, parameter_guess, user_in, span_length, i, guess_dt,
                   guess_cvert, fit_loss, index, loss, best_guess_index,
                   new_params, loss_array, trace_written, curve, asymptote_Y>>

-----------------------------------------------------------------------------
(* Exact arithmetic for the model function.                                *)
(*                                                                         *)
(* For integer arguments k, np.exp(k) is the k-th power of e, and e is     *)
(* transcendental: two rational expressions in e with integer coefficients *)
(* are equal as real numbers exactly when they are equal as rational       *)
(* functions of an indeterminate. A value is a fraction <<num, den>> of    *)
(* polynomials in e; a polynomial is the sequence of its coefficients,     *)
(* lowest power first.                                                     *)

Max(a, b) == IF a > b THEN a ELSE b

PCoef(p, j) == IF j \in DOMAIN p THEN p[j] ELSE 0

\* p without its trailing zero coefficients (at least one coefficient kept)
PTrim(p) ==
    LET used == {j \in DOMAIN p : p[j] # 0}
        top == IF used = {} THEN 1 ELSE CHOOSE j \in used : \A m \in used : m <= j
    IN  SubSeq(p, 1, top)

PAdd(p, q) == PTrim([j \in 1..Max(Len(p), Len(q)) |-> PCoef(p, j) + PCoef(q, j)])

PNeg(p) == [j \in DOMAIN p |-> 0 - p[j]]

\* the sum over a in lo..hi of p[a] * q[j + 1 - a]
RECURSIVE ConvSum(_, _, _, _, _)
ConvSum(p, q, j, lo, hi) ==
    IF lo > hi THEN 0
    ELSE IF lo = hi THEN p[lo] * PCoef(q, j + 1 - lo)
    ELSE LET mid == (lo + hi) \div 2
         IN  ConvSum(p, q, j, lo, mid) + ConvSum(p, q, j, mid + 1, hi)

PMul(p, q) ==
    PTrim([j \in 1..(Len(p) + Len(q) - 1) |-> ConvSum(p, q, j, 1, Len(p))])

\* e^k for k >= 0
PPower(k) == [j \in 1..(k + 1) |-> IF j = k + 1 THEN 1 ELSE 0]

\* fractions
FInt(c) == << <<c>>, <<1>> >>
FAdd(a, b) == <<PAdd(PMul(a[1], b[2]), PMul(b[1], a[2])), PMul(a[2], b[2])>>
FNeg(a) == <<PNeg(a[1]), a[2]>>
FSub(a, b) == FAdd(a, FNeg(b))
FMul(a, b) == <<PMul(a[1], b[1]), PMul(a[2], b[2])>>
FDiv(a, b) == <<PMul(a[1], b[2]), PMul(a[2], b[1])>>
FEq(a, b) == PMul(a[1], b[2]) = PMul(b[1], a[2])

\* the integer a constant fraction stands for
FToInt(a) ==
    IF a[2][1] > 0 THEN a[1][1] \div a[2][1]
    ELSE (0 - a[1][1]) \div (0 - a[2][1])

\* np.exp of an integer constant
FExp(a) ==
    LET k == FToInt(a)
    IN  IF k >= 0 THEN <<PPower(k), <<1>> >> ELSE << <<1>>, PPower(0 - k)>>

\* A number together with its derivative with respect to one chosen
\* parameter; the operations follow the rules of differentiation
Dual(v, d) == [v |-> v, d |-> d]
DConst(c) == Dual(FInt(c), FInt(0))
DVar(c) == Dual(FInt(c), FInt(1))
DAdd(a, b) == Dual(FAdd(a.v, b.v), FAdd(a.d, b.d))
DSub(a, b) == Dual(FSub(a.v, b.v), FSub(a.d, b.d))
DNeg(a) == Dual(FNeg(a.v), FNeg(a.d))
DMul(a, b) == Dual(FMul(a.v, b.v), FAdd(FMul(a.d, b.v), FMul(a.v, b.d)))
DDiv(a, b) ==
    Dual(FDiv(a.v, b.v),
         FDiv(FSub(FMul(a.d, b.v), FMul(a.v, b.d)), FMul(b.v, b.v)))
DExp(a) == Dual(FExp(a.v), FMul(a.d, FExp(a.v)))

-----------------------------------------------------------------------------
(* The model function and its analytic gradient *)

\* return -1 * ((1/K1) * (1 - np.exp(-1 * (adjusted_t) / T)) + (adjusted_t)/N1)
mod_maxwell(tm, parameters, aux_parameters) ==
    LET K1 == parameters[1]
        N0 == parameters[2]
        N1 == parameters[3]
        dt == aux_parameters["dt"]
        T == DDiv(N0, K1)
        adjusted_t == DSub(tm, dt)
    IN  DMul(DConst(0 - 1),
             DAdd(DMul(DDiv(DConst(1), K1),
                       DSub(DConst(1),
                            DExp(DDiv(DMul(DConst(0 - 1), adjusted_t), T)))),
                  DDiv(adjusted_t, N1)))

\* return 1/(1+C3*np.exp((-time + dt)*r))
s_curve(tm, parameters, aux_parameters) ==
    LET dt == aux_parameters["dt"]
        C3 == aux_parameters["c3"]
        r == aux_parameters["r"]
    IN  DDiv(DConst(1),
             DAdd(DConst(1), DMul(C3, DExp(DMul(DAdd(DNeg(tm), dt), r)))))

\* return (time-dt)/N2 + Cvert
steady(tm, parameters, aux_parameters) ==
    LET N2 == parameters[4]
        dt == aux_parameters["dt"]
        Cvert == aux_parameters["cvert"]
    IN  DAdd(DDiv(DSub(tm, dt), N2), Cvert)

saturation_function(tm, parameters, aux_parameters) ==
    DAdd(DMul(mod_maxwell(tm, parameters, aux_parameters),
              s_curve(tm, parameters, aux_parameters)),
         steady(tm, parameters, aux_parameters))

\* the rows df_dk1, df_dN0, df_dN1, df_dN2, on plain numbers
get_saturation_gradient(tm, parameters, aux_parameters) ==
    LET t == FInt(tm)
        K1 == FInt(parameters[1])
        N0 == FInt(parameters[2])
        N1 == FInt(parameters[3])
        N2 == FInt(parameters[4])
        dt == FInt(aux_parameters["dt"])
        C3 == FInt(aux_parameters["c3"])
        r == FInt(aux_parameters["r"])
        one == FInt(1)
        df_dk1 ==
            FMul(FDiv(FInt(0 - 1), FMul(C3, FExp(FMul(r, FSub(dt, t))))),
                 FSub(FDiv(FMul(FSub(dt, t),
                                FExp(FDiv(FMul(FNeg(K1), FSub(dt, t)), N1))),
                           FMul(K1, N1)),
                      FDiv(FSub(one,
                                FExp(FDiv(FMul(FNeg(K1), FSub(dt, t)), N1))),
                           FMul(K1, K1))))
        df_dN0 ==
            FDiv(FMul(FNeg(FSub(dt, t)),
                      FExp(FDiv(FMul(K1, FSub(dt, t)), N0))),
                 FMul(FMul(N0, N0),
                      FAdd(FMul(C3, FExp(FMul(r, FSub(dt, t)))), one)))
        df_dN1 ==
            FDiv(FSub(t, dt),
                 FMul(FMul(N1, N1),
                      FAdd(FMul(C3, FExp(FMul(r, FSub(dt, t)))), one)))
        df_dN2 == FDiv(FSub(dt, t), FMul(N2, N2))
    IN  <<df_dk1, df_dN0, df_dN1, df_dN2>>

\* the data points, tunable vectors and auxiliary constants the gradient is
\* evaluated for
GradTimes == 0..2
GradTunables == {-1, 1, 2} \X {-1, 1, 2} \X {1, 2} \X {1, 2, 3}
GradAux ==
    {[key \in USER_DEFINED_PARAMS \cup {"dt", "cvert"} |->
         IF key = "c3" THEN c
         ELSE IF key = "r" THEN r
         ELSE IF key = "cvert" THEN v
         ELSE 1] : c \in {1, 2}, r \in {0, 1}, v \in {0, 1}}

\* every np.exp of the function and of its gradient has an integer argument
IntegerExponents(tm, parameters, aux_parameters) ==
    LET d == aux_parameters["dt"] - tm
    IN  /\ (parameters[1] * d) % Abs(parameters[2]) = 0
        /\ (parameters[1] * d) % Abs(parameters[3]) = 0

\* get_gradient: grad = get_saturation_gradient(X, parameters, aux_parameters)
EvalGradient ==
    /\ pc = "gradient"
    /\ grad' = get_saturation_gradient(X, parameter_guess, aux_params)
    /\ pc' = "gradient_done"
    /\ UNCHANGED <<X, line, aux_params, parameter_guess, user_in, span_length,
                   i, guess_dt, guess_cvert, fit_loss, index, loss,
                   best_guess_index, new_params, loss_array, trace_written,
                   curve, asymptote_Y, output_written, shown>>

-----------------------------------------------------------------------------

Init ==
    /\ pc = "read"
    /\ line = NoLine
    /\ aux_params = <<>>
    /\ parameter_guess = [k \in DOMAIN TUNED_PARAMS |-> 0]
    /\ user_in = "x"
    /\ span_length = 0
    /\ i = 0
    /\ guess_dt = <<>>
    /\ guess_cvert = <<>>
    /\ fit_loss = <<>>
    /\ index = 0
    /\ loss = Fin(0)
    /\ best_guess_index = 0
    /\ new_params = NoParams
    /\ loss_array = <<>>
    /\ trace_written = FALSE
    /\ curve = <<>>
    /\ asymptote_Y = <<>>
    /\ output_written = FALSE
    /\ shown = FALSE
    /\ X = 0
    /\ grad = <<>>

TrimWide == TrimData(MaxSpanWide)

NextDown == ReadLine \/ EndOfFile \/ Confirm \/ TrimWide \/ DownSample

SpecDown == Init /\ [][NextDown]_vars

TrimSmall == TrimData(MaxSpan)

AsymMain == Asymptote(Curves)

Next ==
    \/ ReadLine \/ EndOfFile \/ Confirm \/ TrimSmall \/ DownSample
    \/ SearchInit \/ SearchStep \/ SearchExit \/ AsymMain \/ Report

Spec == Init /\ [][Next]_vars

\* the asymptote finder on its own: every curve and transition time
InitAsym ==
    /\ pc = "asym"
    /\ line = NoLine
    /\ \E dt \in DtRange :
           aux_params = [k \in USER_DEFINED_PARAMS \cup {"dt", "cvert"} |->
                            IF k = "dt" THEN dt
                            ELSE IF k = "cvert" THEN 0 - dt ELSE 1]
    /\ parameter_guess = [k \in DOMAIN TUNED_PARAMS |-> 1]
    /\ user_in = "y"
    /\ span_length = 0
    /\ i = 0
    /\ guess_dt = <<>>
    /\ guess_cvert = <<>>
    /\ fit_loss = <<>>
    /\ index = 0
    /\ loss = Fin(1)
    /\ best_guess_index = 0
    /\ new_params = <<"opt", aux_params["dt"], aux_params["cvert"], parameter_guess>>
    /\ loss_array = <<>>
    /\ trace_written = TRUE
    /\ curve = <<>>
    /\ asymptote_Y = <<>>
    /\ output_written = FALSE
    /\ shown = FALSE
    /\ X = 0
    /\ grad = <<>>

AsymWide == Asymptote(CurvesWide)

NextAsym == AsymWide \/ Report

SpecAsym == InitAsym /\ [][NextAsym]_vars

\* the gradient on its own: every data point, tunable vector and auxiliary
\* constants of the bounded sets for which the exponents are integers
InitGrad ==
    /\ pc = "gradient"
    /\ line = NoLine
    /\ X \in GradTimes
    /\ parameter_guess \in GradTunables
    /\ aux_params \in GradAux
    /\ IntegerExponents(X, parameter_guess, aux_params)
    /\ grad = <<>>
    /\ user_in = "y"
    /\ span_length = 0
    /\ i = 0
    /\ guess_dt = <<>>
    /\ guess_cvert = <<>>
    /\ fit_loss = <<>>
    /\ index = 0
    /\ loss = Fin(0)
    /\ best_guess_index = 0
    /\ new_params = NoParams
    /\ loss_array = <<>>
    /\ trace_written = FALSE
    /\ curve = <<>>
    /\ asymptote_Y = <<>>
    /\ output_written = FALSE
    /\ shown = FALSE

NextGrad == EvalGradient

SpecGrad == InitGrad /\ [][NextGrad]_vars

-----------------------------------------------------------------------------
(* Properties of the outer search *)

\* the number of fits made so far
FitsDone == IF loss_array = <<>> THEN 0 ELSE Len(loss_array) - 1

\* the loss recorded in the trace for candidate k (0-based)
TraceLoss(k) == loss_array[k + 2][2]

\* the loop over the candidates has ended
SearchOverStates == {"asym", "asym_error", "report", "done", "index_error"}
SearchOver == pc \in SearchOverStates

FloatLe(a, b) == FloatLt(a, b) \/ FloatEq(a, b)

\* C1: when every candidate loss is finite and non-negative, the loss
\* retained after the loop is less than or equal to every loss in the trace
C1_RetainedIsMinimum ==
    (/\ SearchOver
     /\ FitsDone > 0
     /\ \A k \in 0..(FitsDone - 1) : IsFinite(TraceLoss(k)))
    => \A k \in 0..(FitsDone - 1) : FloatLe(loss, TraceLoss(k))

\* C2: after the loop the retained candidate is the lowest-index candidate
\* among those whose loss equals the retained loss
C2_FirstSeenWins ==
    (SearchOver /\ FitsDone > 0)
    => \A k \in 0..(FitsDone - 1) :
           FloatEq(TraceLoss(k), loss) => best_guess_index <= k

\* C3: when at least one candidate loss is finite, the loss retained after
\* the loop is finite
C3_NonFiniteNeverSelected ==
    (/\ SearchOver
     /\ \E k \in 0..(FitsDone - 1) : IsFinite(TraceLoss(k)))
    => IsFinite(loss)

\* C4: a window of 1..200 samples yields one candidate per sample, in index
\* order, and the search ends with a retained result for it
C4_SmallWindowAllUsed ==
    (/\ span_length \in 1..max_itterations
     /\ pc \in {"search_init", "search"} \cup SearchOverStates)
    => /\ Len(guess_dt) = span_length
       /\ \A k \in 1..Len(guess_dt) :
              guess_dt[k] = span_dt(k - 1) /\ guess_cvert[k] = span_cvert(k - 1)
       /\ SearchOver => (pc # "index_error" /\ FitsDone = span_length
                         /\ new_params # NoParams)

\* C5: a window of n > 200 samples yields exactly 200 candidates, the k-th
\* (k = 0..199) taken from window index k * floor((n-1)/200), every index
\* within 0..n-1, strictly increasing, dt and cvert from the same index
C5_LargeWindowStride ==
    (pc = "search_init" /\ span_length > 200)
    => LET stride == (span_length - 1) \div 200
       IN  /\ Len(guess_dt) = 200
           /\ Len(guess_cvert) = 200
           /\ stride >= 1
           /\ \A k \in 0..199 :
                  /\ k * stride \in 0..(span_length - 1)
                  /\ guess_dt[k + 1] = span_dt(k * stride)
                  /\ guess_cvert[k + 1] = span_cvert(k * stride)
           /\ \A k \in 1..199 : guess_dt[k + 1] > guess_dt[k]

\* a window whose stride is 2 has been down-sampled
C5_Witness ==
    /\ pc = "search_init"
    /\ span_length > 2 * max_itterations
    /\ Len(guess_dt) = max_itterations
    /\ guess_dt[max_itterations] - guess_dt[max_itterations - 1] = 2

-----------------------------------------------------------------------------
(* Properties of the asymptote finder *)

\* the curve of the retained fit at time t
Value(t) == saturation_curve(t, Fitted(curve), aux_params)

\* |first difference before t minus first difference after t|
Curvature(t) == Abs((Value(t) - Value(t - 1)) - (Value(t + 1) - Value(t)))

\* 0.01*ref > |second difference at dt*n|
Flat(n) ==
    Curvature(aux_params["dt"]) > 100 * Curvature(aux_params["dt"] * n)

\* C6: when no i in 1..99 passes the threshold the run ends in the error
\* state: bt is never computed, the parameter output never written and the
\* plot never shown
C6_AsymptoteNotFoundFatal ==
    /\ (curve # <<>> /\ \A n \in 1..99 : ~Flat(n)) => pc = "asym_error"
    /\ pc = "asym_error"
       => /\ "bt" \notin DOMAIN aux_params
          /\ asymptote_Y = <<>>
          /\ ~output_written
          /\ ~shown

\* the search ended, every i was tried and none passed
C6_Witness ==
    /\ pc = "asym_error"
    /\ trace_written
    /\ FitsDone = max_itterations
    /\ \A n \in 1..99 : ~Flat(n)

\* C9: the value returned is taken at the smallest i in 1..99 that passes the
\* threshold: value(dt*i) when the forward slope there is negative, value(dt*i)
\* minus dt*i times the forward slope otherwise
C9_FirstFlatPoint ==
    pc \in {"report", "done"}
    => \E n \in 1..99 :
           /\ Flat(n)
           /\ \A m \in 1..(n - 1) : ~Flat(m)
           /\ LET t == aux_params["dt"] * n
                  slope == Value(t + 1) - Value(t)
              IN  asymptote_Y = <<IF slope < 0 THEN Value(t)
                                  ELSE Value(t) - t * slope>>

\* accepted at some i > 1 with a forward slope of zero
C9_Witness ==
    /\ pc = "report"
    /\ ~Flat(1)
    /\ curve.B = 0
    /\ curve.A2 = 1

-----------------------------------------------------------------------------
(* Properties of the run *)

\* the key of an entry that is neither tunable nor auxiliary
IsUnknownEntry(l) ==
    /\ l # NoLine
    /\ ~IsSkipped(l)
    /\ Lower(l[1]) \notin TunedNames \cup USER_DEFINED_PARAMS

\* C7: an unknown entry, or a missing auxiliary key at the end of the file,
\* ends the run in the configuration error before any fit; a fit is only
\* made with all 8 auxiliary keys present
C7_ValidationBeforeFit ==
    /\ IsUnknownEntry(line) => pc = "config_error"
    /\ pc \notin {"read", "config_error"}
       => USER_DEFINED_PARAMS \subseteq DOMAIN aux_params
    /\ pc = "config_error" => FitsDone = 0
    /\ FitsDone > 0 => USER_DEFINED_PARAMS \subseteq DOMAIN aux_params

\* the file ended with an auxiliary key missing
C7_Witness ==
    /\ pc = "config_error"
    /\ line = NoLine
    /\ USER_DEFINED_PARAMS \ DOMAIN aux_params # {}
    /\ aux_params # <<>>

\* the retained parameters, loss and index belong to one candidate
RetainedPaired ==
    FitsDone > 0
    => /\ best_guess_index \in 0..index
       /\ best_guess_index + 1 \in DOMAIN guess_dt
       /\ loss = TraceLoss(best_guess_index)
       /\ loss_array[best_guess_index + 2][1] = guess_dt[best_guess_index + 1]
       /\ guess_cvert[best_guess_index + 1] = 0 - guess_dt[best_guess_index + 1]
       /\ new_params = <<"opt", guess_dt[best_guess_index + 1],
                         guess_cvert[best_guess_index + 1], parameter_guess>>

\* after the loop dt and cvert are those of the retained candidate
RetainedReported ==
    pc \in {"asym", "asym_error", "report", "done"}
    => /\ aux_params["dt"] = guess_dt[best_guess_index + 1]
       /\ aux_params["cvert"] = guess_cvert[best_guess_index + 1]

\* a step of the search changes no auxiliary entry but dt and cvert, and
\* leaves the start vector alone
SearchKeepsInputs ==
    pc = "search"
    => /\ parameter_guess' = parameter_guess
       /\ \A k \in USER_DEFINED_PARAMS : aux_params'[k] = aux_params[k]
       /\ DOMAIN aux_params' \subseteq USER_DEFINED_PARAMS \cup {"dt", "cvert"}

\* C10: the retained parameters, loss and index always belong to the same
\* candidate; after the loop dt and cvert are that candidate's pair; the
\* search changes no other auxiliary entry and never the start vector
C10_RetainedStaysPaired ==
    /\ [](RetainedPaired /\ RetainedReported)
    /\ [][SearchKeepsInputs]_vars

\* reported with a retained candidate that is neither the first nor the last
C10_Witness ==
    /\ pc = "report"
    /\ best_guess_index > 0
    /\ best_guess_index < index
    /\ aux_params["dt"] = guess_dt[best_guess_index + 1]

-----------------------------------------------------------------------------
(* Properties of the gradient *)

\* the tunable vector as dual numbers, differentiating with respect to the
\* k-th parameter
Seeded(parameters, k) ==
    [j \in 1..4 |-> IF j = k THEN DVar(parameters[j]) ELSE DConst(parameters[j])]

\* the auxiliary constants as dual numbers
AuxConst(aux_parameters) ==
    [key \in DOMAIN aux_parameters |-> DConst(aux_parameters[key])]

\* the partial derivative of value(t) with respect to the k-th parameter
Partial(k) ==
    saturation_function(DConst(X), Seeded(parameter_guess, k),
                        AuxConst(aux_params)).d

\* the k-th row of the gradient is the k-th partial derivative
RowMatches(k) == FEq(grad[k], Partial(k))

\* C8: each of the four rows returned by the gradient equals the partial
\* derivative of value(t) with respect to its parameter
C8_GradientIsDerivative ==
    pc = "gradient_done" => \A k \in 1..4 : RowMatches(k)

\* the rows for N0, N1 and N2 are the partial derivatives
GradientRowsN0N1N2 ==
    pc = "gradient_done" => \A k \in 2..4 : RowMatches(k)

====
